---- MODULE Spec2Model ----
(***************************************************************************)
(* Model of the dev-server plugin of src/src/server.plugin.ts:             *)
(* configureServer registers one middleware per exposed file and one per   *)
(* routed entry; the entry middleware memoizes its body in entryCache.     *)
(*                                                                         *)
(* Strings are sequences of tokens (a token stands for a run of            *)
(* characters), so startsWith / endsWith / replace / concatenation are     *)
(* computed on the text and are not assumed.  An optional value            *)
(* (undefined / null in the source) is a sequence of length 0 or 1.        *)
(***************************************************************************)
EXTENDS Integers, Sequences, FiniteSets, TLC

VARIABLES
    inputs,         \* server.config.build.rollupOptions.input, in insertion order
    exposedFolders, \* options?.exposedFolders (optional)
    configured,     \* configureServer has run
    middlewares,    \* server.middlewares: the registered layers, in registration order
    warmups,        \* the server.warmupRequest calls issued, with their outcome
    entryCache,     \* Map<string, string>: entry name -> body
    moduleGraph,    \* host state: input locator -> optional module
    hostChanges,    \* how many times the host's module state has changed
    requests        \* the requests received so far, each with its handler invocations

vars == <<inputs, exposedFolders, configured, middlewares, warmups, entryCache,
          moduleGraph, hostChanges, requests>>

----------------------------------------------------------------------------
(* Bounds of the model *)

MaxEntries == 2

MaxRequests == 2

MaxHostChanges == 2

----------------------------------------------------------------------------
(* Optional values *)

None == <<>>

Some(x) == <<x>>

----------------------------------------------------------------------------
(* String.prototype functions, on token sequences *)

StartsWith(s, p) ==
    /\ Len(p) <= Len(s)
    /\ SubSeq(s, 1, Len(p)) = p

EndsWith(s, p) ==
    /\ Len(p) <= Len(s)
    /\ SubSeq(s, Len(s) - Len(p) + 1, Len(s)) = p

\* position of the first occurrence of p in s, 0 when there is none
IndexOf(s, p) ==
    LET hits == {i \in 1..(Len(s) - Len(p) + 1) : SubSeq(s, i, i + Len(p) - 1) = p}
    IN  IF hits = {} THEN 0 ELSE CHOOSE i \in hits : \A j \in hits : i <= j

\* s.replace(p, r) with a string pattern: the first occurrence only
Replace(s, p, r) ==
    LET i == IndexOf(s, p)
    IN  IF i = 0 THEN s
        ELSE SubSeq(s, 1, i - 1) \o r \o SubSeq(s, i + Len(p), Len(s))

RECURSIVE Join(_, _)
\* parts.join(sep)
Join(parts, sep) ==
    IF parts = <<>> THEN <<>>
    ELSE IF Len(parts) = 1 THEN parts[1]
    ELSE parts[1] \o sep \o Join(Tail(parts), sep)

RECURSIVE Flatten(_)
Flatten(ss) == IF ss = <<>> THEN <<>> ELSE Head(ss) \o Flatten(Tail(ss))

Range(s) == {s[i] : i \in 1..Len(s)}

----------------------------------------------------------------------------
(* Literals of the source *)

VirtualPrefix == <<"virtual:">>

IndexHtml == <<"index.html">>

CssExt == <<".css">>

CssBundleMarker == <<"// type: cssBundle">>

Slash == <<"/">>

Newline == <<"\n">>

ContentType == "Content-Type"

TextCss == "text/css"

ApplicationJavascript == "application/javascript"

----------------------------------------------------------------------------
(* The environment: the host's configuration, the file system, the modules *)

\* entry names (keys of rollupOptions.input)
Names == { <<"m">>, <<"m", "x">>, <<"index.html">> }

\* input locators (values of rollupOptions.input)
Locators ==
    { <<"virtual:", "v">>, <<"src", "/", "m", ".ts">>, <<"index.html">>,
      <<"virtual:", "index.html">> }

Entries == [name : Names, input : Locators]

\* the entry maps: an object has one value per key, kept in insertion order
InputMaps ==
    { s \in UNION { [1..n -> Entries] : n \in 0..MaxEntries } :
        \A i, j \in 1..Len(s) : s[i].name = s[j].name => i = j }

\* process.cwd(), and the one folder of the file system that holds files
Cwd == <<"/", "abs">>

PublicDir == Cwd \o <<"/", "public">>

\* the regular files under PublicDir, relative to it, in the order of the walk
PublicFiles == << <<"m">>, <<"s", "/", "b", ".css">> >>

\* the values of options?.exposedFolders: absent, a relative folder, an absolute one
FolderOptions == { None, Some(<< <<"public">> >>), Some(<< PublicDir >>) }

\* import.meta.dirname of the plugin module
ImportMetaDirname == Cwd \o <<"/", "src">>

\* path.resolve(Cwd, p)
Resolve(p) == IF StartsWith(p, Slash) THEN p ELSE Cwd \o Slash \o p

\* transformed code the host can produce
JsCode == <<"console.log(1);">>

MarkedCode == CssBundleMarker \o <<"\n", "x();">>

EmptyCode == <<>>

Codes == { JsCode, MarkedCode, EmptyCode }

\* module.transformResult: TransformResult | null
ModuleTransformResults == { None } \cup { Some([code |-> c]) : c \in Codes }

\* what server.transformRequest resolves to: TransformResult | null
TransformResults == { None, Some([code |-> JsCode]) }

\* the files of imported modules: one under import.meta.dirname, one relative
ACss == ImportMetaDirname \o <<"/", "a", ".css">>

BCss == <<"styles", "/", "b", ".css">>

BJs == <<"b", ".js">>

\* module.importedModules, each with an optional file: .css files only, a
\* .css and a .js file, a .css file and a module without a file
CssImports == << [file |-> Some(ACss)], [file |-> Some(BCss)] >>

MixedImports == << [file |-> Some(ACss)], [file |-> Some(BJs)] >>

FilelessImports == << [file |-> Some(ACss)], [file |-> None] >>

\* what moduleGraph.getModuleByUrl resolves to: ModuleNode | undefined.
\* Every transform result without imports, every import list with code, and
\* the .css imports without a transform result.
Modules ==
    { None }
        \cup { Some([transformResult |-> t, importedModules |-> <<>>]) :
                t \in ModuleTransformResults }
        \cup { Some([transformResult |-> Some([code |-> JsCode]), importedModules |-> im]) :
                im \in {CssImports, MixedImports, FilelessImports} }
        \cup { Some([transformResult |-> None, importedModules |-> CssImports]) }

\* glob.sync(`${folder}/**/*`, {nodir: true, absolute: true, ignore: [...]})
GlobSync(folder) ==
    IF Resolve(folder) = PublicDir
    THEN [i \in 1..Len(PublicFiles) |-> PublicDir \o Slash \o PublicFiles[i]]
    ELSE <<>>

----------------------------------------------------------------------------
(* configureServer *)

\* mutant: the index.html filter dropped
IsNonVirtualInputWithHtml(e) == ~StartsWith(e.input, VirtualPrefix)

\* record.filter(entry => !entry.startsWith('virtual:')) then
\* record.filterWithIndex((_, file) => !file.endsWith('index.html'))
IsNonVirtualInput(e) ==
    /\ ~StartsWith(e.input, VirtualPrefix)
    /\ ~EndsWith(e.input, IndexHtml)

nonVirtualInputs == SelectSeq(inputs, IsNonVirtualInput)

\* mutant: the virtual group takes every entry
IsAnyInput(e) == TRUE

\* record.filter(entry => entry.startsWith('virtual:'))
IsVirtualInput(e) == StartsWith(e.input, VirtualPrefix)

virtualInputs == SelectSeq(inputs, IsVirtualInput)

\* Object.entries({ ...virtualInputs, ...nonVirtualInputs })
routedEntries == virtualInputs \o nonVirtualInputs

\* the file names of one exposed folder: .map(file => file.replace(`${folder}/`, ''))
ExposedFiles(folder) ==
    LET found == GlobSync(folder)
    IN  [i \in 1..Len(found) |-> Replace(found[i], folder \o Slash, <<>>)]

\* middlewares.use(`/${file}`, ...) for each file of one folder
FileLayers(folder) ==
    LET files == ExposedFiles(folder)
    IN  [i \in 1..Len(files) |->
            [kind |-> "file", route |-> Slash \o files[i], name |-> <<>>,
             input |-> <<>>, folder |-> folder, file |-> files[i]]]

\* options.exposedFolders.forEach(...), skipped when the option is absent
AllFileLayers ==
    IF exposedFolders = None THEN <<>>
    ELSE LET folders == exposedFolders[1]
         IN  Flatten([i \in 1..Len(folders) |-> FileLayers(folders[i])])

\* middlewares.use(`/${name}`, ...) for one entry
EntryLayer(e) ==
    [kind |-> "entry", route |-> Slash \o e.name, name |-> e.name,
     input |-> e.input, folder |-> <<>>, file |-> <<>>]

\* server.warmupRequest(input), not awaited
WarmupCall(e) == [name |-> e.name, input |-> e.input, status |-> "pending"]

\* the entry maps of the serving specification: one name, every locator
ServedInputMaps ==
    { s \in InputMaps : \A i \in 1..Len(s) : s[i].name = <<"m">> }

\* a module with transformed code of its own and no imports, as the tests mock it
BasicModule(l) ==
    Some([transformResult |-> Some([code |-> <<"code of ">> \o l]), importedModules |-> <<>>])

\* The serving specification: one entry, no exposed folder, and a host whose
\* module graph starts empty and takes every module of Modules.
Init ==
    /\ inputs \in ServedInputMaps
    /\ exposedFolders = None
    /\ configured = FALSE
    /\ middlewares = <<>>
    /\ warmups = <<>>
    /\ entryCache = [n \in Names |-> None]
    /\ moduleGraph = [l \in Locators |-> None]
    /\ hostChanges = 0
    /\ requests = <<>>

\* The routing specification: every entry map and folder option, and a host
\* whose module graph holds one fixed module per locator.
InitRouting ==
    /\ inputs \in InputMaps
    /\ exposedFolders \in FolderOptions
    /\ configured = FALSE
    /\ middlewares = <<>>
    /\ warmups = <<>>
    /\ entryCache = [n \in Names |-> None]
    /\ moduleGraph = [l \in Locators |-> BasicModule(l)]
    /\ hostChanges = 0
    /\ requests = <<>>

\* mutant: the entry handlers registered before the exposed-file handlers
ConfigureServerEntriesFirst ==
    /\ ~configured
    /\ configured' = TRUE
    /\ middlewares' = [i \in 1..Len(routedEntries) |-> EntryLayer(routedEntries[i])]
                        \o AllFileLayers
    /\ warmups' = [i \in 1..Len(routedEntries) |-> WarmupCall(routedEntries[i])]
    /\ UNCHANGED <<inputs, exposedFolders, entryCache, moduleGraph, hostChanges,
                   requests>>

ConfigureServer ==
    /\ ~configured
    /\ configured' = TRUE
    /\ middlewares' = AllFileLayers
                        \o [i \in 1..Len(routedEntries) |-> EntryLayer(routedEntries[i])]
    /\ warmups' = [i \in 1..Len(routedEntries) |-> WarmupCall(routedEntries[i])]
    /\ UNCHANGED <<inputs, exposedFolders, entryCache, moduleGraph, hostChanges,
                   requests>>

\* the promise of warmupRequest resolves
WarmupResolve(i) ==
    /\ i \in 1..Len(warmups)
    /\ warmups[i].status = "pending"
    /\ warmups' = [warmups EXCEPT ![i].status = "resolved"]
    /\ UNCHANGED <<inputs, exposedFolders, configured, middlewares, entryCache,
                   moduleGraph, hostChanges, requests>>

\* mutant: the catch handler leaves an empty body in the cache of the entry
WarmupRejectEmptiesEntry(i) ==
    /\ i \in 1..Len(warmups)
    /\ warmups[i].status = "pending"
    /\ warmups' = [warmups EXCEPT ![i].status = "logged"]
    /\ entryCache' = [entryCache EXCEPT ![warmups[i].name] = Some(<<>>)]
    /\ UNCHANGED <<inputs, exposedFolders, configured, middlewares, moduleGraph,
                   hostChanges, requests>>

\* the promise of warmupRequest rejects: .catch(err => console.error(...))
WarmupReject(i) ==
    /\ i \in 1..Len(warmups)
    /\ warmups[i].status = "pending"
    /\ warmups' = [warmups EXCEPT ![i].status = "logged"]
    /\ UNCHANGED <<inputs, exposedFolders, configured, middlewares, entryCache,
                   moduleGraph, hostChanges, requests>>

----------------------------------------------------------------------------
(* The middlewares *)

\* req.originalUrl?.startsWith(route)
UrlMatches(url, route) == url # None /\ StartsWith(url[1], route)

\* one invocation of a handler: what it did to (req, res, next) and to the host
\* (next: calls of next(); headers: the setHeader calls; ends: the res.end bodies;
\* lookups, transforms: the host calls; hit: served from entryCache; seen: what
\* the lookup resolved to; stored: what entryCache.set got; epoch: the host's
\* module state the response was written in)
Invocation(h) ==
    [h |-> h, next |-> 0, headers |-> <<>>, ends |-> <<>>, lookups |-> 0,
     transforms |-> 0, hit |-> FALSE, seen |-> <<>>, stored |-> <<>>, epoch |-> 0]

\* mutant: next() without return, the handler goes on to its lookup
PassThroughWithoutReturn(h) == [Invocation(h) EXCEPT !.next = 1, !.lookups = 1]

\* if (!req.originalUrl?.startsWith(...)) { return next(); }
PassThrough(h) == [Invocation(h) EXCEPT !.next = 1]

\* contents.startsWith('// type: cssBundle') ? 'text/css' : 'application/javascript'
CachedContentType(contents) ==
    IF StartsWith(contents, CssBundleMarker) THEN TextCss ELSE ApplicationJavascript

\* mutant: the cache hit without its return, the request is passed on as well
ServeCachedWithoutReturn(h, contents) ==
    [Invocation(h) EXCEPT
        !.hit = TRUE,
        !.next = 1,
        !.headers = << [name |-> ContentType, value |-> CachedContentType(contents)] >>,
        !.ends = << contents >>]

\* the cache hit: setHeader('Content-Type', ...); res.end(contents); return
ServeCached(h, contents) ==
    [Invocation(h) EXCEPT
        !.hit = TRUE,
        !.epoch = hostChanges,
        !.headers = << [name |-> ContentType, value |-> CachedContentType(contents)] >>,
        !.ends = << contents >>]

\* the cache miss up to its await: server.moduleGraph.getModuleByUrl(input)
StartLookup(h) == [Invocation(h) EXCEPT !.lookups = 1]

\* the exposed-file handler up to its await: server.transformRequest(...)
StartTransform(h) == [Invocation(h) EXCEPT !.transforms = 1]

\* the locator the exposed-file handler hands to the host: `${folder}/${file}`
TransformLocator(layer) == layer.folder \o Slash \o layer.file

\* the synchronous part of the handler of layer h for a matching request
MatchedInvocation(h) ==
    LET layer == middlewares[h]
    IN  IF layer.kind = "file" THEN StartTransform(h)
        ELSE IF entryCache[layer.name] # None
             THEN ServeCached(h, entryCache[layer.name][1])
             ELSE StartLookup(h)

RECURSIVE Chain(_, _)
\* the layers tried in registration order from layer h on: each calls next()
\* synchronously until one matches
Chain(url, h) ==
    IF h > Len(middlewares) THEN <<>>
    ELSE IF UrlMatches(url, middlewares[h].route) THEN << MatchedInvocation(h) >>
    ELSE << PassThrough(h) >> \o Chain(url, h + 1)

\* where a request stands after the synchronous part of the chain
PcAfter(inv) ==
    IF inv = <<>> \/ inv[Len(inv)].next > 0 THEN "passed"
    ELSE IF inv[Len(inv)].transforms > 0 THEN "awaitTransform"
    ELSE IF inv[Len(inv)].lookups > 0 THEN "awaitLookup"
    ELSE "done"

\* the URLs requests are made with: absent, unregistered, each registered route,
\* and the route of each configured name
Urls ==
    { None, Some(<<"/", "other">>) }
        \cup { Some(middlewares[h].route) : h \in 1..Len(middlewares) }
        \cup { Some(Slash \o inputs[i].name) : i \in 1..Len(inputs) }

Request(url) ==
    /\ configured
    /\ Len(requests) < MaxRequests
    /\ LET inv == Chain(url, 1)
       IN  requests' = Append(requests, [url |-> url, inv |-> inv, pc |-> PcAfter(inv)])
    /\ UNCHANGED <<inputs, exposedFolders, configured, middlewares, warmups,
                   entryCache, moduleGraph, hostChanges>>

----------------------------------------------------------------------------
(* The exposed-file handler after its await *)

\* mutant: the Content-Type follows the extension of the served file
FileResponseByExtension(inv, transformed) ==
    [inv EXCEPT
        !.seen = << transformed >>,
        !.epoch = hostChanges,
        !.headers = << [name |-> ContentType,
                        value |-> IF EndsWith(middlewares[inv.h].file, CssExt)
                                  THEN TextCss ELSE ApplicationJavascript] >>,
        !.ends = << IF transformed = None THEN <<>> ELSE transformed[1].code >>]

\* res.setHeader('Content-Type', 'application/javascript');
\* res.end(transformed?.code ?? '')
FileResponse(inv, transformed) ==
    [inv EXCEPT
        !.seen = << transformed >>,
        !.epoch = hostChanges,
        !.headers = << [name |-> ContentType, value |-> ApplicationJavascript] >>,
        !.ends = << IF transformed = None THEN <<>> ELSE transformed[1].code >>]

TransformReturn(r, transformed) ==
    /\ r \in 1..Len(requests)
    /\ requests[r].pc = "awaitTransform"
    /\ LET n == Len(requests[r].inv)
       IN  requests' = [requests EXCEPT
                ![r].inv[n] = FileResponse(requests[r].inv[n], transformed),
                ![r].pc = "done"]
    /\ UNCHANGED <<inputs, exposedFolders, configured, middlewares, warmups,
                   entryCache, moduleGraph, hostChanges>>

\* the promise of a host call rejects: the await throws out of the async handler
HostCallThrows(r) ==
    /\ r \in 1..Len(requests)
    /\ requests[r].pc \in {"awaitTransform", "awaitLookup"}
    /\ requests' = [requests EXCEPT ![r].pc = "threw"]
    /\ UNCHANGED <<inputs, exposedFolders, configured, middlewares, warmups,
                   entryCache, moduleGraph, hostChanges>>

----------------------------------------------------------------------------
(* The entry handler after its await *)

\* module?.transformResult
TransformResultOf(module) == IF module = None THEN None ELSE module[1].transformResult

\* transformed?.code ?? ''
CodeOf(transformed) == IF transformed = None THEN <<>> ELSE transformed[1].code

HasFile(m) == m.file # None

\* pipe(Array.from(module?.importedModules ?? []),
\*      A.filterMap(m => O.fromNullable(m.file)),
\*      A.map(file => file.replace(import.meta.dirname, '')))
ImportedFiles(module) ==
    LET mods == IF module = None THEN <<>> ELSE module[1].importedModules
        withFile == SelectSeq(mods, HasFile)
    IN  [i \in 1..Len(withFile) |-> Replace(withFile[i].file[1], ImportMetaDirname, <<>>)]

\* mutant: the length test dropped
IsCssOnlyOfAnyLength(importedFiles) ==
    \A i \in 1..Len(importedFiles) : EndsWith(importedFiles[i], CssExt)

\* importedFiles.length > 0 && importedFiles.every(file => file.endsWith('.css'))
IsCssOnly(importedFiles) ==
    /\ Len(importedFiles) > 0
    /\ \A i \in 1..Len(importedFiles) : EndsWith(importedFiles[i], CssExt)

\* mutant: the lines joined with the default separator of join()
CssBundleCommaJoined(importedFiles) ==
    Join([i \in 1..Len(importedFiles) |-> <<"@import '">> \o importedFiles[i] \o <<"';">>],
         <<",">>)

\* importedFiles.map(file => `@import '${file}';`).join('\n')
CssBundle(importedFiles) ==
    Join([i \in 1..Len(importedFiles) |-> <<"@import '">> \o importedFiles[i] \o <<"';">>],
         Newline)

\* mutant: the cache gets the body as it was sent, marker included
CssResponseStoringMarked(inv, module) ==
    LET cssBundle == CssBundle(ImportedFiles(module))
    IN  [inv EXCEPT
            !.seen = << module >>,
            !.epoch = hostChanges,
            !.headers = << [name |-> ContentType, value |-> TextCss] >>,
            !.ends = << CssBundleMarker \o Newline \o Newline \o cssBundle >>,
            !.stored = << CssBundleMarker \o Newline \o Newline \o cssBundle >>]

\* the CSS-only branch: text/css, the marker and the bundle; the bundle is cached
CssResponse(inv, module) ==
    LET cssBundle == CssBundle(ImportedFiles(module))
    IN  [inv EXCEPT
            !.seen = << module >>,
            !.epoch = hostChanges,
            !.headers = << [name |-> ContentType, value |-> TextCss] >>,
            !.ends = << CssBundleMarker \o Newline \o Newline \o cssBundle >>,
            !.stored = << cssBundle >>]

\* mutant: the body is cached whether or not there is code
JsResponseAlwaysStored(inv, module) ==
    LET code == CodeOf(TransformResultOf(module))
    IN  [inv EXCEPT
            !.seen = << module >>,
            !.epoch = hostChanges,
            !.headers = << [name |-> ContentType, value |-> ApplicationJavascript] >>,
            !.ends = << code >>,
            !.stored = << code >>]

\* the other branch: application/javascript and the code, cached when truthy
JsResponse(inv, module) ==
    LET code == CodeOf(TransformResultOf(module))
    IN  [inv EXCEPT
            !.seen = << module >>,
            !.epoch = hostChanges,
            !.headers = << [name |-> ContentType, value |-> ApplicationJavascript] >>,
            !.ends = << code >>,
            !.stored = IF code # <<>> THEN << code >> ELSE <<>>]

\* the entry handler from the resolved lookup to its end
EntryResponse(inv, layer, module) ==
    IF StartsWith(layer.input, VirtualPrefix) /\ IsCssOnly(ImportedFiles(module))
    THEN CssResponse(inv, module)
    ELSE JsResponse(inv, module)

\* mutant: a write to a name that has a body appends to the body
CacheAfterAppending(cache, name, inv) ==
    IF inv.stored = <<>> THEN cache
    ELSE [cache EXCEPT
            ![name] = Some((IF cache[name] = None THEN <<>> ELSE cache[name][1])
                             \o inv.stored[1])]

\* mutant: one slot for all entries, a write binds every name
CacheAfterForEveryName(cache, name, inv) ==
    IF inv.stored = <<>> THEN cache ELSE [n \in Names |-> Some(inv.stored[1])]

\* entryCache.set(name, ...) for what the invocation stored
CacheAfter(cache, name, inv) ==
    IF inv.stored = <<>> THEN cache ELSE [cache EXCEPT ![name] = Some(inv.stored[1])]

LookupReturn(r) ==
    /\ r \in 1..Len(requests)
    /\ requests[r].pc = "awaitLookup"
    /\ LET n == Len(requests[r].inv)
           layer == middlewares[requests[r].inv[n].h]
           done == EntryResponse(requests[r].inv[n], layer, moduleGraph[layer.input])
       IN  /\ requests' = [requests EXCEPT ![r].inv[n] = done, ![r].pc = "done"]
           /\ entryCache' = CacheAfter(entryCache, layer.name, done)
    /\ UNCHANGED <<inputs, exposedFolders, configured, middlewares, warmups,
                   moduleGraph, hostChanges>>

\* mutant: a change of a module evicts the entries of that locator from the cache
HostChangeInvalidates(l, m) ==
    /\ configured
    /\ hostChanges < MaxHostChanges
    /\ \E i \in 1..Len(routedEntries) : routedEntries[i].input = l
    /\ moduleGraph[l] # m
    /\ moduleGraph' = [moduleGraph EXCEPT ![l] = m]
    /\ hostChanges' = hostChanges + 1
    /\ entryCache' = [n \in Names |->
                        IF \E i \in 1..Len(routedEntries) :
                              routedEntries[i].name = n /\ routedEntries[i].input = l
                        THEN None ELSE entryCache[n]]
    /\ UNCHANGED <<inputs, exposedFolders, configured, middlewares, warmups, requests>>

\* the host's module graph changes (a warm-up or a transform finished, a file changed)
HostChange(l, m) ==
    /\ configured
    /\ hostChanges < MaxHostChanges
    /\ \E i \in 1..Len(routedEntries) : routedEntries[i].input = l
    /\ moduleGraph[l] # m
    /\ moduleGraph' = [moduleGraph EXCEPT ![l] = m]
    /\ hostChanges' = hostChanges + 1
    /\ UNCHANGED <<inputs, exposedFolders, configured, middlewares, warmups,
                   entryCache, requests>>

Next ==
    \/ ConfigureServer
    \/ \E i \in 1..MaxEntries : WarmupResolve(i) \/ WarmupReject(i)
    \/ \E url \in Urls : Request(url)
    \/ \E r \in 1..MaxRequests : LookupReturn(r) \/ HostCallThrows(r)
    \/ \E l \in Locators : \E m \in Modules : HostChange(l, m)

Spec == Init /\ [][Next]_vars

NextRouting ==
    \/ ConfigureServer
    \/ \E i \in 1..MaxEntries : WarmupResolve(i) \/ WarmupReject(i)
    \/ \E url \in Urls : Request(url)
    \/ \E r \in 1..MaxRequests : \E t \in TransformResults : TransformReturn(r, t)
    \/ \E r \in 1..MaxRequests : LookupReturn(r) \/ HostCallThrows(r)

SpecRouting == InitRouting /\ [][NextRouting]_vars

----------------------------------------------------------------------------
(* Vocabulary of the properties *)

\* the invocation that ended the synchronous chain of request r
Last(r) == requests[r].inv[Len(requests[r].inv)]

\* request r matched the route of a handler
Matched(r) == requests[r].inv # <<>> /\ Last(r).next = 0

\* request r matched the handler of an entry
EntryRequest(r) == Matched(r) /\ middlewares[Last(r).h].kind = "entry"

\* request r matched the handler of an exposed file
FileRequest(r) == Matched(r) /\ middlewares[Last(r).h].kind = "file"

\* the handler of request r has run to its end
Answered(r) == Matched(r) /\ requests[r].pc = "done"

\* an answered request that was served from the Entry Cache / by a lookup
CacheHit(r) == Answered(r) /\ Last(r).hit

Fresh(r) == Answered(r) /\ EntryRequest(r) /\ ~Last(r).hit

\* the Content-Type and the body request r was answered with
ContentTypeSent(r) == Last(r).headers[Len(Last(r).headers)].value

BodySent(r) == Last(r).ends[1]

\* r is the first request that matched its entry handler
FirstFor(r) ==
    /\ EntryRequest(r)
    /\ \A q \in 1..(r - 1) : ~(EntryRequest(q) /\ Last(q).h = Last(r).h)

\* q is a later request than r for the same entry handler
LaterFor(r, q) == r < q /\ EntryRequest(r) /\ EntryRequest(q) /\ Last(q).h = Last(r).h

\* the module the lookup of a fresh request resolved to
ModuleSeen(r) == Last(r).seen[1]

\* a path without the process-root prefix
WithoutRoot(path) ==
    IF StartsWith(path, ImportMetaDirname)
    THEN SubSeq(path, Len(ImportMetaDirname) + 1, Len(path))
    ELSE path

\* the paths of the imports of a looked-up module that have a file, in import order
ImportPaths(module) ==
    IF module = None THEN <<>>
    ELSE LET mods == module[1].importedModules
             at == {i \in 1..Len(mods) : mods[i].file # None}
             nth[k \in 0..Cardinality(at)] ==
                 IF k = 0 THEN 0
                 ELSE CHOOSE i \in at : i > nth[k - 1] /\ \A j \in at : j > nth[k - 1] => i <= j
         IN  [k \in 1..Cardinality(at) |-> WithoutRoot(mods[nth[k]].file[1])]

\* the CSS-only condition: a virtual locator, a non-empty list of import paths,
\* each ending in .css
CssOnlyEntry(input, module) ==
    /\ SubSeq(input, 1, 1) = <<"virtual:">>
    /\ ImportPaths(module) # <<>>
    /\ \A p \in Range(ImportPaths(module)) : p[Len(p)] = ".css"

----------------------------------------------------------------------------
(* C1: an entry served as a CSS-only bundle (text/css) on its first request   *)
(* is served with Content-Type text/css on every later request answered from  *)
(* the Entry Cache.                                                           *)
C1_CachedCssBundleKeepsTextCss ==
    \A r, q \in 1..Len(requests) :
        ( /\ FirstFor(r) /\ Fresh(r) /\ ContentTypeSent(r) = TextCss
          /\ LaterFor(r, q) /\ CacheHit(q) )
        => ContentTypeSent(q) = TextCss

(* C2: an entry that is not CSS-only and has transformed code X is answered    *)
(* with application/javascript and body X on its first request, and with the  *)
(* same body and Content-Type on every later request, the host's module state *)
(* being unchanged in between.                                                *)
C2_CachedEntryRepeatsFirstResponse ==
    \A r \in 1..Len(requests) :
        ( /\ FirstFor(r) /\ Fresh(r)
          /\ ModuleSeen(r) # None
          /\ ModuleSeen(r)[1].transformResult # None
          /\ ~CssOnlyEntry(middlewares[Last(r).h].input, ModuleSeen(r)) )
        => /\ ContentTypeSent(r) = ApplicationJavascript
           /\ BodySent(r) = ModuleSeen(r)[1].transformResult[1].code
           /\ \A q \in 1..Len(requests) :
                (LaterFor(r, q) /\ Answered(q) /\ Last(q).epoch = Last(r).epoch)
                => /\ BodySent(q) = BodySent(r)
                   /\ ContentTypeSent(q) = ApplicationJavascript

\* the module has at least one import and each import is a file ending in .css
AllImportsAreCssFiles(module) ==
    /\ module # None
    /\ module[1].importedModules # <<>>
    /\ \A m \in Range(module[1].importedModules) :
         m.file # None /\ m.file[1][Len(m.file[1])] = ".css"

\* the marker line, a blank line, one @import line per path
MarkedImportLines(paths) ==
    LET line(k) == <<"@import '">> \o paths[k] \o <<"';">>
        upTo[k \in 1..Len(paths)] ==
            IF k = 1 THEN line(1) ELSE upTo[k - 1] \o <<"\n">> \o line(k)
    IN  <<"// type: cssBundle", "\n", "\n">> \o upTo[Len(paths)]

(* C3: the first request for a virtual entry whose imports are all files      *)
(* ending in .css (at least one) is a cache miss answered with text/css and   *)
(* the marker line, a blank line and one @import line per imported file, in   *)
(* import order (each path without the process-root prefix).                  *)
C3_CssOnlyFirstResponse ==
    \A r \in 1..Len(requests) :
        (FirstFor(r) /\ Answered(r))
        => /\ Fresh(r)
           /\ ( /\ SubSeq(middlewares[Last(r).h].input, 1, 1) = <<"virtual:">>
                /\ AllImportsAreCssFiles(ModuleSeen(r)) )
              => /\ Last(r).headers = << [name |-> "Content-Type", value |-> "text/css"] >>
                 /\ Last(r).ends = << MarkedImportLines(ImportPaths(ModuleSeen(r))) >>

C3_Witness ==
    \E r \in 1..Len(requests) :
        /\ FirstFor(r) /\ Fresh(r)
        /\ AllImportsAreCssFiles(ModuleSeen(r))
        /\ Len(ModuleSeen(r)[1].importedModules) = 2
        /\ ContentTypeSent(r) = TextCss

\* transformed?.code ?? '' of a looked-up module
CodeOrEmpty(module) ==
    IF module = None THEN <<>>
    ELSE IF module[1].transformResult = None THEN <<>>
    ELSE module[1].transformResult[1].code

(* C4: on a cache miss the entry is served as CSS-only (text/css) exactly     *)
(* when its locator starts with 'virtual:', its list of import paths is       *)
(* non-empty and every path ends in .css; otherwise the response is           *)
(* application/javascript with the module's transformed code as body.         *)
C4_CssOnlyExactlyWhen ==
    \A r \in 1..Len(requests) :
        Fresh(r) =>
            LET cssOnly == CssOnlyEntry(middlewares[Last(r).h].input, ModuleSeen(r))
            IN  /\ (ContentTypeSent(r) = TextCss) <=> cssOnly
                /\ ~cssOnly =>
                     /\ ContentTypeSent(r) = ApplicationJavascript
                     /\ BodySent(r) = CodeOrEmpty(ModuleSeen(r))

C4_Witness ==
    \E r \in 1..Len(requests) :
        /\ Fresh(r)
        /\ SubSeq(middlewares[Last(r).h].input, 1, 1) # <<"virtual:">>
        /\ AllImportsAreCssFiles(ModuleSeen(r))
        /\ ContentTypeSent(r) = ApplicationJavascript
        /\ BodySent(r) = JsCode

(* C5: a virtual entry with at least one imported module that is not a .css   *)
(* file (an import without a file path included) is not served with           *)
(* Content-Type text/css.                                                     *)
C5_NonCssImportNeverTextCss ==
    \A r \in 1..Len(requests) :
        ( /\ Fresh(r)
          /\ ModuleSeen(r) # None
          /\ \E m \in Range(ModuleSeen(r)[1].importedModules) :
                m.file = None \/ m.file[1][Len(m.file[1])] # ".css" )
        => ContentTypeSent(r) # TextCss

----------------------------------------------------------------------------
\* the last token of a name or locator is 'index.html' / its first is 'virtual:'
IsHtml(text) == text # <<>> /\ text[Len(text)] = "index.html"

IsVirtual(text) == text # <<>> /\ text[1] = "virtual:"

\* an entry handler for the entry name is registered
EntryHandlerAt(name) ==
    \E h \in 1..Len(middlewares) :
        middlewares[h].kind = "entry" /\ middlewares[h].name = name

\* an entry handler for the entry name was invoked and did not pass the request on
HandledByEntry(name) ==
    \E r \in 1..Len(requests) : EntryRequest(r) /\ middlewares[Last(r).h].name = name

(* C6 as stated: once configured, no entry whose name ends in 'index.html'    *)
(* has a handler at '/<name>' or answers a request, whatever its locator.     *)
C6_HtmlNameNeverRouted ==
    configured =>
        \A i \in 1..Len(inputs) :
            IsHtml(inputs[i].name) =>
                /\ \A h \in 1..Len(middlewares) :
                      middlewares[h].route # <<"/">> \o inputs[i].name
                /\ ~HandledByEntry(inputs[i].name)

(* C6 as amended: once configured, no entry whose locator ends in             *)
(* 'index.html' and does not start with 'virtual:' has an entry handler at    *)
(* '/<name>' or has a request answered by an entry handler, whatever its name.*)
C6_HtmlLocatorNeverRouted ==
    configured =>
        \A i \in 1..Len(inputs) :
            (IsHtml(inputs[i].input) /\ ~IsVirtual(inputs[i].input)) =>
                /\ ~EntryHandlerAt(inputs[i].name)
                /\ \A h \in 1..Len(middlewares) :
                      middlewares[h].kind = "entry"
                        => middlewares[h].route # <<"/">> \o inputs[i].name
                /\ ~HandledByEntry(inputs[i].name)

C6_Witness ==
    /\ configured
    /\ \E i \in 1..Len(inputs) : \E r \in 1..Len(requests) :
         /\ IsHtml(inputs[i].input) /\ ~IsVirtual(inputs[i].input)
         /\ ~IsHtml(inputs[i].name)
         /\ requests[r].url = << <<"/">> \o inputs[i].name >>
         /\ requests[r].pc = "passed"

\* the URL is absent or does not start with the route
Mismatch(url, route) ==
    \/ url = <<>>
    \/ Len(url[1]) < Len(route)
    \/ \E i \in 1..Len(route) : url[1][i] # route[i]

\* the invocation did nothing but call next() once
OnlyPassedOn(iv) ==
    /\ iv.next = 1
    /\ iv.headers = <<>>
    /\ iv.ends = <<>>
    /\ iv.lookups = 0
    /\ iv.transforms = 0
    /\ iv.stored = <<>>

(* C7: a handler (of an entry or of an exposed file) invoked with a request   *)
(* whose URL is absent or does not start with its route calls next() exactly  *)
(* once, sets no header, writes no body, makes no host call, and the step     *)
(* leaves the Entry Cache unchanged.                                          *)
C7_MismatchOnlyPassesOn ==
    [][ \A r \in 1..Len(requests') : \A k \in 1..Len(requests'[r].inv) :
            Mismatch(requests'[r].url, middlewares'[requests'[r].inv[k].h].route) =>
                /\ OnlyPassedOn(requests'[r].inv[k])
                /\ r > Len(requests) => entryCache' = entryCache ]_vars

C7_Witness ==
    \E r \in 1..Len(requests) : \E j, k \in 1..Len(requests[r].inv) :
        /\ middlewares[requests[r].inv[j].h].kind = "file"
        /\ middlewares[requests[r].inv[k].h].kind = "entry"
        /\ requests[r].inv[j].next = 1
        /\ requests[r].inv[k].next = 1
        /\ requests[r].pc = "passed"

\* the lookup found no module, or a module without a transform result
NoResult(module) == module = None \/ module[1].transformResult = None

(* C8: a matched request whose host call failed or yielded no result is       *)
(* still answered, with Content-Type application/javascript and an empty      *)
(* body, and no error leaves the handler.                                     *)
C8_HostFailureAnsweredEmpty ==
    \A r \in 1..Len(requests) :
        ( /\ Matched(r)
          /\ \/ requests[r].pc = "threw"
             \/ Fresh(r) /\ NoResult(ModuleSeen(r))
             \/ FileRequest(r) /\ Answered(r) /\ Last(r).seen = << None >> )
        => /\ requests[r].pc = "done"
           /\ ContentTypeSent(r) = ApplicationJavascript
           /\ BodySent(r) = <<>>

\* the entry is routed: a virtual locator, or one that is not an HTML document
Routed(e) == IsVirtual(e.input) \/ ~IsHtml(e.input)

RelativeTo(file, folder) ==
    SubSeq(file, Len(Resolve(folder)) + 2, Len(file))

(* C10: for every exposed folder F and every (absolute) file of its walk, a   *)
(* handler is registered at '/<rel>', rel being the file's path relative to   *)
(* F, and it asks the host to transform 'F/<rel>', which is that file.        *)
C10_ExposedRouteIsRelativePath ==
    (configured /\ exposedFolders # None) =>
        \A folder \in Range(exposedFolders[1]) : \A file \in Range(GlobSync(folder)) :
            \E h \in 1..Len(middlewares) :
                /\ middlewares[h].kind = "file"
                /\ middlewares[h].route = <<"/">> \o RelativeTo(file, folder)
                /\ TransformLocator(middlewares[h])
                      = folder \o <<"/">> \o RelativeTo(file, folder)
                /\ Resolve(TransformLocator(middlewares[h])) = file

----------------------------------------------------------------------------
\* the code a host transform resolved to, the empty string when it has none
CodeReturned(transformed) ==
    IF transformed = <<>> THEN <<>> ELSE transformed[1].code

(* C11: every request that matches the handler of an exposed file makes that  *)
(* handler call the host transform once (and no lookup), neither reads nor    *)
(* writes the Entry Cache, and once the transform has returned is answered    *)
(* with application/javascript and the code that call returned (the empty     *)
(* string when it returned none), whatever the file's extension.              *)
C11_ExposedFileAlwaysRetransformed ==
    [][ \A r \in 1..Len(requests') :
            LET rq == requests'[r]
                iv == rq.inv[Len(rq.inv)]
            IN  ( /\ rq.inv # <<>>
                  /\ iv.next = 0
                  /\ middlewares'[iv.h].kind = "file" ) =>
                    /\ iv.transforms = 1
                    /\ iv.lookups = 0
                    /\ ~iv.hit
                    /\ iv.stored = <<>>
                    /\ (r > Len(requests) \/ requests[r] # rq) => entryCache' = entryCache
                    /\ rq.pc = "done" =>
                         /\ iv.headers = << [name |-> "Content-Type",
                                             value |-> "application/javascript"] >>
                         /\ iv.ends = << CodeReturned(iv.seen[1]) >> ]_vars

C11_Witness ==
    \E r, q \in 1..Len(requests) :
        /\ r < q
        /\ FileRequest(r) /\ FileRequest(q)
        /\ Answered(r) /\ Answered(q)
        /\ Last(r).h = Last(q).h
        /\ middlewares[Last(r).h].file[Len(middlewares[Last(r).h].file)] = ".css"
        /\ BodySent(r) = JsCode
        /\ BodySent(q) = <<>>
        /\ ContentTypeSent(q) = ApplicationJavascript

(* C12: in every handler invocation responding and passing on exclude each    *)
(* other: an invocation whose request URL matched its route never calls       *)
(* next() and writes the body at most once; an invocation that called next()  *)
(* called it once and set no header and wrote no body.                        *)
C12_RespondOrPassOn ==
    \A r \in 1..Len(requests) : \A k \in 1..Len(requests[r].inv) :
        LET iv == requests[r].inv[k]
        IN  /\ iv.next > 0 => (iv.next = 1 /\ iv.headers = <<>> /\ iv.ends = <<>>)
            /\ ~Mismatch(requests[r].url, middlewares[iv.h].route) =>
                  /\ iv.next = 0
                  /\ Len(iv.ends) <= 1
            /\ requests[r].pc = "done" => Len(Last(r).ends) = 1

C12_Witness ==
    \E r \in 1..Len(requests) :
        /\ Len(requests[r].inv) >= 2
        /\ requests[r].inv[1].next = 1
        /\ middlewares[requests[r].inv[1].h].kind = "file"
        /\ CacheHit(r)
        /\ Len(Last(r).ends) = 1

----------------------------------------------------------------------------
\* the URL starts with the route of a handler of the kind among the layers
MatchesSomeOf(layers, url, kind) ==
    \E h \in 1..Len(layers) :
        layers[h].kind = kind /\ ~Mismatch(url, layers[h].route)

MatchesSome(url, kind) == MatchesSomeOf(middlewares, url, kind)

(* C13: every exposed-file handler is registered before every entry handler,   *)
(* so a request whose URL matches both the route of an exposed file and the   *)
(* route of an entry is taken by the exposed-file handler: no entry handler   *)
(* is invoked for it, and neither its arrival nor its completion changes the  *)
(* Entry Cache.                                                               *)
C13_ExposedFilesBeforeEntries ==
    [][ /\ \A f, e \in 1..Len(middlewares') :
              (middlewares'[f].kind = "file" /\ middlewares'[e].kind = "entry") => f < e
        /\ \A r \in 1..Len(requests') :
              LET rq == requests'[r]
              IN  ( /\ MatchesSomeOf(middlewares', rq.url, "file")
                    /\ MatchesSomeOf(middlewares', rq.url, "entry") ) =>
                    /\ rq.inv # <<>>
                    /\ rq.inv[Len(rq.inv)].next = 0
                    /\ \A k \in 1..Len(rq.inv) : middlewares'[rq.inv[k].h].kind = "file"
                    /\ rq.inv[Len(rq.inv)].transforms = 1
                    /\ rq.inv[Len(rq.inv)].stored = <<>>
                    /\ (r > Len(requests) \/ requests[r] # rq) => entryCache' = entryCache
      ]_vars

C13_Witness ==
    \E r \in 1..Len(requests) :
        /\ MatchesSome(requests[r].url, "file")
        /\ MatchesSome(requests[r].url, "entry")
        /\ requests[r].url = << <<"/", "m">> >>
        /\ FileRequest(r) /\ Answered(r)
        /\ BodySent(r) = JsCode

----------------------------------------------------------------------------
\* the entry handlers registered for the entry name
EntryHandlersAt(name) ==
    {h \in 1..Len(middlewares) :
        middlewares[h].kind = "entry" /\ middlewares[h].route = <<"/">> \o name}

(* C14: once configured, the routed entries are exactly the entries whose     *)
(* locator starts with 'virtual:' together with those whose locator neither   *)
(* starts with 'virtual:' nor ends in 'index.html'; no entry is in both       *)
(* groups; a routed entry has exactly one entry handler, at '/<name>' and     *)
(* for its locator; no other entry and no other name has an entry handler.    *)
C14_RoutedEntriesPartition ==
    configured =>
        /\ \A i \in 1..Len(inputs) :
              LET inVirtual == IsVirtual(inputs[i].input)
                  inOthers == ~IsVirtual(inputs[i].input) /\ ~IsHtml(inputs[i].input)
              IN  /\ ~(inVirtual /\ inOthers)
                  /\ (inVirtual \/ inOthers) =>
                        /\ Cardinality(EntryHandlersAt(inputs[i].name)) = 1
                        /\ \A h \in EntryHandlersAt(inputs[i].name) :
                              /\ middlewares[h].name = inputs[i].name
                              /\ middlewares[h].input = inputs[i].input
                  /\ ~(inVirtual \/ inOthers) => EntryHandlersAt(inputs[i].name) = {}
        /\ \A h \in 1..Len(middlewares) :
              middlewares[h].kind = "entry" =>
                  \E i \in 1..Len(inputs) : h \in EntryHandlersAt(inputs[i].name)
        /\ \A i \in 1..Len(virtualInputs) : \A j \in 1..Len(nonVirtualInputs) :
              virtualInputs[i].name # nonVirtualInputs[j].name

C14_Witness ==
    /\ configured
    /\ Len(inputs) = 2
    /\ \E i, j \in 1..Len(inputs) :
          /\ inputs[i].input = <<"virtual:", "index.html">>
          /\ Cardinality(EntryHandlersAt(inputs[i].name)) = 1
          /\ inputs[j].input = <<"index.html">>
          /\ EntryHandlersAt(inputs[j].name) = {}
    /\ Len(middlewares) > 1

----------------------------------------------------------------------------
(* C15: Entry Cache writes are insert-if-absent: in every step, a name that   *)
(* has a body in the cache and still has one after the step has the same      *)
(* body, whatever the interleaving of requests and host changes.              *)
C15_CacheWritesInsertIfAbsent ==
    [][ \A n \in Names :
            (entryCache[n] # <<>> /\ entryCache'[n] # <<>>) => entryCache'[n] = entryCache[n]
      ]_vars

----------------------------------------------------------------------------
\* requests r and q matched the same entry handler and both missed the cache
BothMissed(r, q) ==
    /\ EntryRequest(r) /\ EntryRequest(q)
    /\ Last(r).h = Last(q).h
    /\ ~Last(r).hit /\ ~Last(q).hit

\* every miss of the entry handler of r that was answered was answered in the
\* host's module state in which r was
NoHostChangeAmong(r) ==
    \A p \in 1..Len(requests) :
        (BothMissed(r, p) /\ Answered(p)) => Last(p).epoch = Last(r).epoch

(* C16: requests for the same entry that all missed the cache each perform    *)
(* their own lookup; each of them is answered, or still awaits the host, or   *)
(* was failed by the host, never held by another request; when all of them    *)
(* were answered in the same host module state, they got the same response,   *)
(* and the Entry Cache holds for the entry exactly what the first of them     *)
(* stored (nothing, when it stored nothing).                                  *)
C16_ConcurrentMissesConverge ==
    \A r, q \in 1..Len(requests) :
        (r < q /\ BothMissed(r, q)) =>
            /\ Last(r).lookups = 1
            /\ Last(q).lookups = 1
            /\ requests[r].pc \in {"done", "awaitLookup", "threw"}
            /\ requests[q].pc \in {"done", "awaitLookup", "threw"}
            /\ (Answered(r) /\ Answered(q) /\ NoHostChangeAmong(r)) =>
                  /\ Last(q).headers = Last(r).headers
                  /\ Last(q).ends = Last(r).ends
                  /\ Len(Last(q).ends) = 1
                  /\ Last(q).stored = Last(r).stored
                  /\ entryCache[middlewares[Last(r).h].name] = Last(r).stored

C16_Witness ==
    \E r, q \in 1..Len(requests) :
        /\ r < q /\ BothMissed(r, q)
        /\ Answered(r) /\ Answered(q)
        /\ Last(r).epoch = Last(q).epoch
        /\ Last(r).stored = << JsCode >>
        /\ Last(q).lookups = 1
        /\ entryCache[middlewares[Last(r).h].name] = << JsCode >>

----------------------------------------------------------------------------
(* C17: the Entry Cache only grows: no step removes a name that has a body;   *)
(* a request that arrives at an entry handler while the entry's name has a    *)
(* body is answered at once with that body and without a lookup, whatever     *)
(* the host's module state has become; no request makes more than one lookup. *)
C17_CacheOnlyGrows ==
    [][ /\ \A n \in Names : entryCache[n] # <<>> => entryCache'[n] # <<>>
        /\ \A r \in (Len(requests) + 1)..Len(requests') :
              LET rq == requests'[r]
                  iv == rq.inv[Len(rq.inv)]
              IN  ( /\ rq.inv # <<>>
                    /\ iv.next = 0
                    /\ middlewares[iv.h].kind = "entry"
                    /\ entryCache[middlewares[iv.h].name] # <<>> ) =>
                      /\ rq.pc = "done"
                      /\ iv.hit
                      /\ iv.lookups = 0
                      /\ iv.ends = entryCache[middlewares[iv.h].name]
        /\ \A r \in 1..Len(requests') :
              /\ \A k \in 1..Len(requests'[r].inv) : requests'[r].inv[k].lookups <= 1
              /\ Cardinality({k \in 1..Len(requests'[r].inv) :
                                requests'[r].inv[k].lookups > 0}) <= 1
      ]_vars

C17_Witness ==
    \E r, q \in 1..Len(requests) :
        /\ LaterFor(r, q)
        /\ Fresh(r) /\ Last(r).stored = << JsCode >>
        /\ CacheHit(q) /\ Last(q).lookups = 0
        /\ Last(q).epoch > Last(r).epoch
        /\ moduleGraph[middlewares[Last(q).h].input] = <<>>
        /\ BodySent(q) = JsCode

----------------------------------------------------------------------------
(* C18: when a cache miss that is not CSS-only completes, the body sent is    *)
(* the module's transformed code; if there is transformed code (a non-empty   *)
(* string) the Entry Cache then maps the entry's name to exactly that body,   *)
(* and if there is none the step leaves the cache as it was; a request that   *)
(* arrives at the entry handler while the name has no body makes the lookup.  *)
C18_JsMissCachesCodeOnly ==
    [][ /\ \A r \in 1..Len(requests) :
              LET iv == requests'[r].inv[Len(requests'[r].inv)]
                  layer == middlewares[iv.h]
              IN  ( /\ requests[r].pc = "awaitLookup"
                    /\ requests'[r].pc = "done"
                    /\ ~CssOnlyEntry(layer.input, iv.seen[1]) ) =>
                      /\ iv.ends = << CodeOrEmpty(iv.seen[1]) >>
                      /\ CodeOrEmpty(iv.seen[1]) # <<>> =>
                            /\ entryCache'[layer.name] = iv.ends
                            /\ \A n \in Names \ {layer.name} : entryCache'[n] = entryCache[n]
                      /\ CodeOrEmpty(iv.seen[1]) = <<>> => entryCache' = entryCache
        /\ \A r \in (Len(requests) + 1)..Len(requests') :
              LET rq == requests'[r]
                  iv == rq.inv[Len(rq.inv)]
              IN  ( /\ rq.inv # <<>>
                    /\ iv.next = 0
                    /\ middlewares[iv.h].kind = "entry"
                    /\ entryCache[middlewares[iv.h].name] = <<>> ) =>
                      /\ rq.pc = "awaitLookup"
                      /\ iv.lookups = 1
                      /\ iv.ends = <<>>
      ]_vars

C18_Witness ==
    \E r, q \in 1..Len(requests) :
        /\ LaterFor(r, q)
        /\ Fresh(r) /\ Fresh(q)
        /\ ModuleSeen(r) = Some([transformResult |-> Some([code |-> EmptyCode]),
                                 importedModules |-> <<>>])
        /\ BodySent(r) = <<>>
        /\ Last(r).epoch < Last(q).epoch
        /\ Last(q).lookups = 1
        /\ BodySent(q) = JsCode
        /\ entryCache[middlewares[Last(q).h].name] = << JsCode >>

----------------------------------------------------------------------------
\* one @import line per path, without the marker line and the blank line
ImportLinesOnly(paths) ==
    SubSeq(MarkedImportLines(paths), 4, Len(MarkedImportLines(paths)))

\* r is the only request of its entry handler that wrote to the Entry Cache
OnlyWriter(r) ==
    \A p \in 1..Len(requests) :
        (EntryRequest(p) /\ Last(p).h = Last(r).h /\ Last(p).stored # <<>>) => p = r

(* C19: a cache miss of a CSS-only virtual entry is answered with the marker  *)
(* line, a blank line and the @import lines, and stores the @import lines     *)
(* alone, which do not start with the marker; a request answered from what    *)
(* that miss stored gets the @import lines alone as body.                     *)
C19_CssBundleCachedWithoutMarker ==
    \A r \in 1..Len(requests) :
        (Fresh(r) /\ CssOnlyEntry(middlewares[Last(r).h].input, ModuleSeen(r))) =>
            LET lines == ImportLinesOnly(ImportPaths(ModuleSeen(r)))
            IN  /\ Last(r).stored = << lines >>
                /\ lines[1] # "// type: cssBundle"
                /\ BodySent(r) = <<"// type: cssBundle", "\n", "\n">> \o lines
                /\ \A q \in 1..Len(requests) :
                      (LaterFor(r, q) /\ CacheHit(q) /\ OnlyWriter(r)) =>
                          BodySent(q) = lines

C19_Witness ==
    \E r, q \in 1..Len(requests) :
        /\ Fresh(r) /\ CssOnlyEntry(middlewares[Last(r).h].input, ModuleSeen(r))
        /\ LaterFor(r, q) /\ CacheHit(q) /\ OnlyWriter(r)
        /\ BodySent(q) = <<"@import '", "/", "a", ".css", "';", "\n",
                           "@import '", "styles", "/", "b", ".css", "';">>
        /\ BodySent(r) # BodySent(q)

----------------------------------------------------------------------------
(* C20: a request whose URL is exactly '/<name>' of a routed entry E and      *)
(* that an entry handler answers is answered with the content of E's own      *)
(* module, never with that of another entry, for every entry map.             *)
C20_ExactUrlServesOwnEntry ==
    \A r \in 1..Len(requests) : \A i \in 1..Len(inputs) :
        ( /\ Routed(inputs[i])
          /\ requests[r].url = << <<"/">> \o inputs[i].name >>
          /\ EntryRequest(r)
          /\ Answered(r) ) =>
            BodySent(r) = <<"code of ">> \o inputs[i].input

----------------------------------------------------------------------------
\* the names whose binding in the Entry Cache the step changes
ChangedBindings == {n \in Names : entryCache'[n] # entryCache[n]}

(* C21: a step changes the Entry Cache only by completing a request in the    *)
(* handler of an entry E, and then changes at most the binding of E's own     *)
(* name; a request answered from the cache changes no binding.                *)
C21_CacheFrame ==
    [][ /\ ChangedBindings # {} =>
              \E r \in 1..Len(requests) :
                  /\ requests[r].pc = "awaitLookup"
                  /\ requests'[r].pc = "done"
                  /\ middlewares[Last(r).h].kind = "entry"
                  /\ ChangedBindings = {middlewares[Last(r).h].name}
        /\ \A r \in 1..Len(requests') :
              ( /\ requests'[r].inv # <<>>
                /\ requests'[r].inv[Len(requests'[r].inv)].hit
                /\ (r > Len(requests) \/ requests[r] # requests'[r]) ) =>
                    ChangedBindings = {}
      ]_vars

C21_Witness ==
    \E r, q \in 1..Len(requests) :
        /\ r < q
        /\ Fresh(r) /\ Fresh(q)
        /\ middlewares[Last(r).h].name # middlewares[Last(q).h].name
        /\ entryCache[middlewares[Last(r).h].name] = Last(r).stored
        /\ entryCache[middlewares[Last(q).h].name] = Last(q).stored
        /\ Last(r).stored # <<>>
        /\ Last(q).stored # <<>>
        /\ Last(r).stored # Last(q).stored

(* C22: a request whose URL matched a handler's route and that has no         *)
(* response written is waiting for a host call that has not returned: only    *)
(* a host call that never returns leaves a matched request without a          *)
(* response.                                                                  *)
C22_OnlyHungHostCallLeavesNoResponse ==
    \A r \in 1..Len(requests) :
        (Matched(r) /\ Last(r).ends = <<>>) =>
            requests[r].pc \in {"awaitLookup", "awaitTransform"}

====
